---- MODULE Spec2Model ----
(***************************************************************************)
(* Model of ModalComponent (src/src/components/modal/modal-component.ts). *)
(*                                                                         *)
(* The component owns three reactive properties (open, message, type).     *)
(* The host writes them from its own tasks; the user clicks one of the     *)
(* controls the last render pass produced.  A click runs one of the three  *)
(* private methods close / handleConfirm / handleCancel to completion.     *)
(* dispatchEvent is synchronous: the host's "confirm" listener runs        *)
(* inside the click handler and may itself write one of the properties.    *)
(***************************************************************************)
EXTENDS Integers, Sequences, FiniteSets, TLC

\* Cap on the history counter `emitted` (the program itself has no cap).
MaxEmitted == 3

\* Host-supplied values of the two string properties.
Messages == {"", "Saved."}
Types == {"", "alert", "confirm"}

Controls == {"overlay", "ok", "cancel"}
HostOps == {"setOpenTrue", "setOpenFalse", "setMessage", "setType"}

VARIABLES
  open,      \* this.open
  message,   \* this.message
  type,      \* this.type
  log,       \* notifications dispatched by the most recent click handling
  emitted,   \* number of "confirm" events dispatched so far
  last,      \* the operation that produced the current state
  prev       \* the properties and the counter as they were before it

vars == <<open, message, type, log, emitted, last, prev>>

Snapshot == [open |-> open, message |-> message, type |-> type,
             emitted |-> emitted]

----------------------------------------------------------------------------
\* What a host listener may do while it handles one "confirm" event:
\* nothing, or one write to one of the three public properties.
NoReaction == [f |-> "none", b |-> FALSE, s |-> ""]

Reactions ==
  {NoReaction}
    \cup {[f |-> "open", b |-> x, s |-> ""] : x \in BOOLEAN}
    \cup {[f |-> "message", b |-> FALSE, s |-> m] : m \in Messages}
    \cup {[f |-> "type", b |-> FALSE, s |-> t] : t \in Types}

React(s, r) ==
  CASE r.f = "open"    -> [s EXCEPT !.open = r.b]
    [] r.f = "message" -> [s EXCEPT !.message = r.s]
    [] r.f = "type"    -> [s EXCEPT !.type = r.s]
    [] OTHER           -> s

\* this.dispatchEvent(new CustomEvent("confirm", { detail })): the event is
\* delivered at once; the listener sees the properties as they are now
\* (`seen`), and `afterWrite` tells whether close() has already written
\* open = false in this handling.
dispatchEvent(s, detail) ==
  LET r == Head(s.pending)
      delivered == [detail |-> detail, seen |-> s.open,
                    afterWrite |-> s.wrote, react |-> r]
  IN React([s EXCEPT !.log = Append(@, delivered), !.pending = Tail(@)], r)

\* close as it would be with the two statements in the other order.
close_emitFirst(s) ==
  LET s1 == dispatchEvent(s, FALSE)
  IN [s1 EXCEPT !.open = FALSE, !.wrote = TRUE]

\* close that forgets to hide the dialog.
close_noWrite(s) == dispatchEvent(s, FALSE)

\* close that flips the flag instead of clearing it.
close_toggle(s) ==
  dispatchEvent([s EXCEPT !.open = ~s.open, !.wrote = TRUE], FALSE)

\* close that also clears the message.
close_clearsMessage(s) ==
  dispatchEvent([s EXCEPT !.open = FALSE, !.message = "", !.wrote = TRUE],
                FALSE)

\* private close()
close(s) == dispatchEvent([s EXCEPT !.open = FALSE, !.wrote = TRUE], FALSE)

\* private handleConfirm()
handleConfirm(s) == close(dispatchEvent(s, TRUE))

\* handleCancel with the detail of handleConfirm.
handleCancel_emitsTrue(s) == close(dispatchEvent(s, TRUE))

\* private handleCancel()
handleCancel(s) == close(dispatchEvent(s, FALSE))

NoControls == [c \in {} |-> ""]
AlertControls == [c \in {"overlay", "ok"} |-> "close"]
ConfirmControls ==
  [c \in Controls |-> CASE c = "ok" -> "handleConfirm"
                       [] c = "cancel" -> "handleCancel"
                       [] OTHER -> "close"]

\* render without the early return on !this.open.
render_always(o, t) ==
  IF t = "confirm" THEN ConfirmControls ELSE AlertControls

\* render whose alert branch binds the button to handleConfirm.
render_alertConfirms(o, t) ==
  IF ~o THEN NoControls
  ELSE IF t = "confirm" THEN ConfirmControls
  ELSE [c \in {"overlay", "ok"} |->
          IF c = "ok" THEN "handleConfirm" ELSE "close"]

\* render that takes every non-empty type as confirm.
render_looseType(o, t) ==
  IF ~o THEN NoControls
  ELSE IF t # "" THEN ConfirmControls
  ELSE AlertControls

\* render(): the clickable regions of the current DOM, each with the method
\* its @click is bound to.
render(o, t) ==
  IF ~o THEN NoControls
  ELSE IF t = "confirm" THEN ConfirmControls
  ELSE AlertControls

\* The listener bound to a control, run to completion.
Call(h, s) ==
  CASE h = "handleConfirm" -> handleConfirm(s)
    [] h = "handleCancel"  -> handleCancel(s)
    [] OTHER               -> close(s)

----------------------------------------------------------------------------
Init ==
  /\ open = FALSE
  /\ message = ""
  /\ type = ""
  /\ log = <<>>
  /\ emitted = 0
  /\ last = "init"
  /\ prev = [open |-> FALSE, message |-> "", type |-> "", emitted |-> 0]

\* A host write that also notifies, as if it went through close().
HostSetOpen_notifies(b) ==
  /\ open' = b
  /\ emitted' = IF open /\ ~b /\ emitted < MaxEmitted
                THEN emitted + 1 ELSE emitted
  /\ last' = IF b THEN "setOpenTrue" ELSE "setOpenFalse"
  /\ prev' = Snapshot
  /\ UNCHANGED <<message, type, log>>

\* A host write of open that starts the opening afresh.
HostSetOpen_resets(b) ==
  /\ open' = b
  /\ message' = IF b THEN "" ELSE message
  /\ last' = IF b THEN "setOpenTrue" ELSE "setOpenFalse"
  /\ prev' = Snapshot
  /\ UNCHANGED <<type, log, emitted>>

\* A host write of open that also puts the mode back to its default.
HostSetOpen_clearsType(b) ==
  /\ open' = b
  /\ type' = ""
  /\ last' = IF b THEN "setOpenTrue" ELSE "setOpenFalse"
  /\ prev' = Snapshot
  /\ UNCHANGED <<message, log, emitted>>

\* host: modal.open = b
HostSetOpen(b) ==
  /\ open' = b
  /\ last' = IF b THEN "setOpenTrue" ELSE "setOpenFalse"
  /\ prev' = Snapshot
  /\ UNCHANGED <<message, type, log, emitted>>

\* host: modal.message = m
HostSetMessage(m) ==
  /\ message' = m
  /\ last' = "setMessage"
  /\ prev' = Snapshot
  /\ UNCHANGED <<open, type, log, emitted>>

\* host: modal.type = t
HostSetType(t) ==
  /\ type' = t
  /\ last' = "setType"
  /\ prev' = Snapshot
  /\ UNCHANGED <<open, message, log, emitted>>

\* The component as a click handler finds it: properties f, nothing
\* dispatched yet, and the reactions rs the host listener is going to have.
Start(f, rs) ==
  [open |-> f.open, message |-> f.message, type |-> f.type,
   log |-> <<>>, wrote |-> FALSE, pending |-> rs]

\* The user clicks control c of the rendered dialog; rs are the reactions of
\* the host listener to the events dispatched during the handling.
Click(c, rs) ==
  /\ c \in DOMAIN render(open, type)
  /\ emitted + 2 <= MaxEmitted
  /\ LET s1 == Call(render(open, type)[c], Start(Snapshot, rs))
     IN /\ open' = s1.open
        /\ message' = s1.message
        /\ type' = s1.type
        /\ log' = s1.log
        /\ emitted' = emitted + Len(s1.log)
  /\ last' = c
  /\ prev' = Snapshot

ClickOverlay == \E r1, r2 \in Reactions : Click("overlay", <<r1, r2>>)
ClickOk      == \E r1, r2 \in Reactions : Click("ok", <<r1, r2>>)
ClickCancel  == \E r1, r2 \in Reactions : Click("cancel", <<r1, r2>>)

Next ==
  \/ \E b \in BOOLEAN : HostSetOpen(b)
  \/ \E m \in Messages : HostSetMessage(m)
  \/ \E t \in Types : HostSetType(t)
  \/ ClickOverlay
  \/ ClickOk
  \/ ClickCancel

Spec == Init /\ [][Next]_vars

----------------------------------------------------------------------------
TypeOK ==
  /\ open \in BOOLEAN
  /\ message \in Messages
  /\ type \in Types
  /\ emitted \in 0..MaxEmitted
  /\ last \in Controls \cup HostOps \cup {"init"}
  /\ Len(log) \in 0..2

Details(l) == [i \in 1..Len(l) |-> l[i].detail]

\* The decision the claim attaches to each input.
Decision(c) == c = "ok"

\* The host left `open` alone during the last click handling.
HostKeptOpen == \A i \in 1..Len(log) : log[i].react.f # "open"

Clicked == last \in Controls

----------------------------------------------------------------------------
\* C1: every click handling on an open dialog dispatches exactly one
\* "confirm" event, whichever control was clicked and whichever mode is set.
C1_ExactlyOneNotification == Clicked => Len(log) = 1

\* C2: in confirm mode every event dispatched for a click carries the
\* decision of that click (ok-control true, cancel-control and overlay
\* false) and no event with another payload is dispatched for it.
C2_ConfirmPayloadIsDecision ==
  (Clicked /\ prev.open /\ prev.type = "confirm") =>
    /\ Len(log) >= 1
    /\ \A i \in 1..Len(log) : log[i].detail = Decision(last)

\* C3: in alert mode (type other than "confirm") the ok-control and the
\* overlay both dispatch payload false, and no payload true is dispatched.
C3_AlertAlwaysFalse ==
  (Clicked /\ prev.open /\ prev.type # "confirm") =>
    /\ last \in {"overlay", "ok"}
    /\ Len(log) >= 1
    /\ \A i \in 1..Len(log) : log[i].detail = FALSE

C3_Witness ==
  /\ last = "ok" /\ prev.open /\ prev.type = "alert"
  /\ Details(log) = <<FALSE>>

\* C4: a click on an open dialog ends with open = false when its handler
\* has completed, provided the host did not write open during the handling.
C4_ClickCloses == (Clicked /\ prev.open /\ HostKeptOpen) => open = FALSE

C4_Witness ==
  /\ last = "cancel" /\ prev.open /\ prev.type = "confirm"
  /\ HostKeptOpen /\ open = FALSE

C7_ModeFallback ==
  /\ open =>
       /\ DOMAIN render(open, type) =
            IF type = "confirm" THEN Controls ELSE {"overlay", "ok"}
       /\ type # "confirm" => render(open, type)["ok"] = "close"
       /\ type = "confirm" => render(open, type)["ok"] = "handleConfirm"
  /\ (Clicked /\ prev.open /\ prev.type # "confirm") =>
       /\ last # "cancel"
       /\ Details(log) = <<FALSE>>

C7_Witness ==
  /\ last = "ok" /\ prev.open /\ prev.type = ""
  /\ Details(log) = <<FALSE>>

\* C8: a host write open = true on an open dialog changes no property,
\* dispatches nothing, and leaves the events of the next click (their
\* number and payloads, for every control and host reaction) as they were.
C8_OpenTrueIdempotent ==
  [][(open /\ last' = "setOpenTrue") =>
       /\ open' = open /\ message' = message /\ type' = type
       /\ emitted' = emitted /\ log' = log
       /\ DOMAIN render(open', type') = DOMAIN render(open, type)
       /\ \A c \in DOMAIN render(open, type) : \A r1, r2 \in Reactions :
            Details(Call(render(open', type')[c],
                         Start(Snapshot', <<r1, r2>>)).log)
              = Details(Call(render(open, type)[c],
                             Start(Snapshot, <<r1, r2>>)).log)]_vars

C8_Witness ==
  /\ last = "setOpenTrue" /\ prev.open /\ open
  /\ message = "Saved." /\ type = "confirm"

\* C9: in confirm mode a cancel-control click gives the host the same
\* sequence of events and the same final properties as an overlay click
\* from the same state would.
C9_CancelLikeOverlay ==
  (last = "cancel" /\ prev.open /\ prev.type = "confirm") =>
    LET o == close(Start(prev, <<log[1].react, log[Len(log)].react>>))
    IN /\ Details(log) = Details(o.log)
       /\ (HostKeptOpen => open = o.open)

\* C10: a host write to open, message or type dispatches nothing and
\* changes no property other than the one written.
C10_HostWritesSilent ==
  [][(last' \in HostOps) =>
       /\ emitted' = emitted /\ log' = log
       /\ last' \in {"setOpenTrue", "setOpenFalse"} =>
            (message' = message /\ type' = type)
       /\ last' = "setMessage" => (open' = open /\ type' = type)
       /\ last' = "setType" => (open' = open /\ message' = message)]_vars

C10_Witness ==
  /\ last = "setOpenFalse" /\ prev.open /\ ~open
  /\ emitted = prev.emitted /\ emitted > 0

\* The events of the last click handling whose listener wrote property f.
Writes(f) == {i \in 1..Len(log) : log[i].react.f = f}

LastWrite(f) == CHOOSE i \in Writes(f) : \A j \in Writes(f) : j <= i

\* C11: no auto-dismiss.  open goes from true to false only in a click
\* handling or a host write of false, it goes from false to true only by a
\* host write, and the widget itself never writes open = true: a click
\* handling leaves the dialog open only if a host listener re-opened it.
C11_NoAutoDismiss ==
  [][/\ (open /\ ~open') => last' \in Controls \cup {"setOpenFalse"}
     /\ (~open /\ open') => last' = "setOpenTrue"
     /\ (last' \in Controls /\ open') =>
          \E i \in 1..Len(log') :
            log'[i].react.f = "open" /\ log'[i].react.b]_vars

C11_Witness ==
  /\ last = "setType" /\ prev.open /\ open /\ emitted > 0

\* C12 (as claimed): type does not change while the dialog stays open.
C12_ModeFixedWhileOpen == [][(open /\ open') => type' = type]_vars

\* C12 (amended): the widget never changes type; during an opening type
\* changes only by a host write of type (from a host task or from a
\* listener), and the rendered layout follows the current value.
C12_TypeChangesOnlyByHost ==
  [][/\ type' # type =>
          \/ last' = "setType"
          \/ last' \in Controls /\
               \E i \in 1..Len(log') : log'[i].react.f = "type"
     /\ open' => DOMAIN render(open', type') =
                   IF type' = "confirm" THEN Controls
                   ELSE {"overlay", "ok"}]_vars

C12_Witness ==
  /\ last = "setType" /\ prev.open /\ open
  /\ prev.type = "alert" /\ type = "confirm"

\* C13: a click handling changes only open and the events: message and
\* type are as before the click unless a host listener wrote them, and
\* then they hold the value the listener wrote last.
C13_ClickFrame ==
  Clicked =>
    /\ message = IF Writes("message") = {} THEN prev.message
                 ELSE log[LastWrite("message")].react.s
    /\ type = IF Writes("type") = {} THEN prev.type
              ELSE log[LastWrite("type")].react.s

C13_Witness ==
  /\ last = "ok" /\ prev.open
  /\ prev.message = "Saved." /\ message = "Saved."
  /\ prev.type = "confirm" /\ type = "confirm"
  /\ Writes("message") = {} /\ Writes("type") = {}

\* C14: payload true is dispatched only as the first event of an
\* ok-control click on an open dialog with type = "confirm".
C14_TrueOnlyFromConfirmOk ==
  Clicked =>
    \A i \in 1..Len(log) :
      log[i].detail =>
        /\ i = 1
        /\ last = "ok"
        /\ prev.open
        /\ prev.type = "confirm"

C14_Witness ==
  /\ last = "ok" /\ prev.open /\ prev.type = "confirm"
  /\ Details(log) = <<TRUE, FALSE>>

\* C15: when a host listener writes open during a click handling, the
\* widget does not overwrite it: at the end of the handling open has the
\* value the host wrote last, for each of the three controls.
C15_ReopenPreserved ==
  (Clicked /\ Writes("open") # {}) =>
    open = log[LastWrite("open")].react.b

====
